---- MODULE Spec2Model ----
(***************************************************************************)
(* Dispatch and lifecycle engine of duongptryu/gox: the relay router       *)
(* (eventrouter.messageRouter) and the CQRS bus (messaging.cqrsBus).       *)
(* Both are thin wrappers over one watermill message.Router; the router    *)
(* state below (handlers, isRunning, running, closed, closedCh) is the     *)
(* state of that wrapped router, driven through the wrappers' methods.     *)
(***************************************************************************)
EXTENDS Integers, Sequences, FiniteSets, TLC

\* ---------------------------------------------------------------- bounds
MaxMsgs == 1
MaxFlowMsgs == 2
MaxRunCalls == 2
MaxCloseCalls == 1
MaxMiddlewares == 2
MaxPlugins == 1
MaxBulk == 3

None == "none"

\* which constructor built the instance: NewRouter or NewBus
Wirings == {"router", "bus"}

\* handler names and topics used by the relay examples
RelayNames == {"order_processor", "payment_processor", "payment_executor"}
Topics == {"orders.created", "orders.processed"}
\* logical names handed to RegisterCommandHandler / RegisterEventHandler
BusNames == {"CreateOrder", "OrderCreated"}
AllNames == RelayNames \cup BusNames
HandlerFns == {"h1", "h2"}
\* interceptors and plugins handed to AddMiddleware / AddPlugin
MiddlewareNames == {"recoverer", "retry"}
PluginNames == {"signals_handler"}

RunCalls == 1..MaxRunCalls
MsgIds == 1..(IF MaxMsgs > MaxFlowMsgs THEN MaxMsgs ELSE MaxFlowMsgs)

\* ------------------------------------------------------- topic naming
\* fmt.Sprintf("%T", v) of a value handed to PublishCommand/PublishEvent,
\* already split at "." : a struct value, a pointer to a struct, a *any.
CommandTypes == { <<"main", "CreateOrder">>, <<"*interface {}">> }
EventTypes == { <<"*main", "OrderCreated">>, <<"*interface {}">> }

\* cqrs.StructName (marshaler.GenerateName): the last "."-segment of %T
StructName(t) == t[Len(t)]

\* the value NewCommand/NewEvent of a handler built from
\* func(context.Context, *any) error yields: new(any)
HandlerArgType == <<"*interface {}">>

\* a naming that drops the kind prefix
topicWithoutPrefix(name) == name

\* a naming that puts events under the prefix of the commands
topicUnderCommands(name) == "commands." \o name

generateEventTopic(eventName) == "events." \o eventName

generateCommandTopic(commandName) == "commands." \o commandName

\* ------------------------------------------------------------- state
VARIABLES
  wiring,      \* "router" (NewRouter) or "bus" (NewBus)
  middlewares, \* router.middlewares, in the order they were added
  plugins,     \* router.plugins, in the order they were added
  handlers,    \* router.handlers: name -> registration (state "absent" = no entry)
  isRunning,   \* router.isRunning, set when Run begins
  running,     \* router.running channel closed: what IsRunning() reports
  closed,      \* router.closed (closingInProgressCh closed with it)
  closedCh,    \* router.closedCh closed: Close has finished
  closer,      \* who is inside router.Close holding its locks: none/user/auto
  autoArmed,   \* closeWhenAllHandlersStopped is waiting on handlersWg
  ctxDone,     \* the context of the accepted Run is cancelled
  runPc,       \* position of each Run call
  runErr,      \* result of each Run call
  closeCalls,  \* Close calls made so far
  queue,       \* per handler: envelopes its subscription has yet to yield
  inflight,    \* per handler: the envelope handleMessage is working on
  dlv,         \* per handler and envelope: invocations, outcomes, acks, nacks
  published,   \* every Publish call made on the transport
  nextId,      \* next envelope id a publishing client creates
  last,        \* the most recent API call, with its result
  bulk         \* the SendBulkEmails call of a mail provider, with its progress

vars == << wiring, middlewares, plugins, handlers, isRunning, running, closed, closedCh, closer,
           autoArmed, ctxDone, runPc, runErr, closeCalls, queue, inflight,
           dlv, published, nextId, last, bulk >>

NoHandler == [sub |-> None, pub |-> None, kind |-> None, fn |-> None,
              state |-> "absent", expect |-> None, subs |-> 0, chain |-> << >>]

\* counts kept per handler and envelope: handler invocations, their error
\* and panic outcomes, envelopes republished, acks and nacks
NoDelivery == [inv |-> 0, err |-> 0, panic |-> 0, sent |-> 0, ack |-> 0, nack |-> 0]

\* payloads: "p0" as the publishing client encoded it, "p1" as rewritten by a
\* relay handler, "garbled" bytes that are no JSON document
Payloads == {"p0", "p1", "garbled"}

NoFlight == [id |-> 0, name |-> None, payload |-> None, reg |-> NoHandler]

NoCall == [op |-> None, name |-> None, err |-> None, id |-> 0]

Registered(hs, n) == hs[n].state # "absent"

RegisteredNames(hs) == {n \in AllNames : Registered(hs, n)}

\* handlersWg: one count per AddHandler, released when the handler's loop ends
handlersWg == Cardinality({n \in AllNames : handlers[n].state \in {"added", "started"}})

\* runningHandlersWg: handleMessage goroutines still at work
runningHandlersWg == Cardinality({n \in AllNames : inflight[n].id # 0})

\* messageRouter.Running: r.router.IsRunning()
Running == running

\* no SendBulkEmails call
NoBulk == [provider |-> None, messages |-> << >>, dialOk |-> TRUE, pc |-> "idle",
           results |-> << >>, errors |-> << >>, successCount |-> 0,
           failureCount |-> 0, err |-> None]

\* the engine after NewRouter / NewBus
EngineInit ==
  /\ wiring \in Wirings
  /\ middlewares = << >>
  /\ plugins = << >>
  /\ handlers = [n \in AllNames |-> NoHandler]
  /\ isRunning = FALSE
  /\ running = FALSE
  /\ closed = FALSE
  /\ closedCh = FALSE
  /\ closer = None
  /\ autoArmed = FALSE
  /\ ctxDone = FALSE
  /\ runPc = [c \in RunCalls |-> "idle"]
  /\ runErr = [c \in RunCalls |-> None]
  /\ closeCalls = 0
  /\ queue = [n \in AllNames |-> << >>]
  /\ inflight = [n \in AllNames |-> NoFlight]
  /\ dlv = [n \in AllNames |-> [i \in MsgIds |-> NoDelivery]]
  /\ published = {}
  /\ nextId = 1
  /\ last = NoCall

Init == EngineInit /\ bulk = NoBulk

\* ------------------------------------------------------ registration
\* What the wrapped router's AddHandler does with a new registration: a name
\* already in router.handlers panics (DuplicateHandlerNameError), otherwise
\* the entry is stored and handlersWg grows by one.
RouterAddResult(name) ==
  IF Registered(handlers, name) THEN "panic: duplicate handler name" ELSE "nil"

\* a registration that opens the subscription at once
RouterAddSubscribing(name, reg) ==
  IF Registered(handlers, name) THEN handlers
  ELSE [handlers EXCEPT ![name] = [reg EXCEPT !.state = "started", !.subs = 1]]

RouterAdd(name, reg) ==
  IF Registered(handlers, name) THEN handlers
  ELSE [handlers EXCEPT ![name] = reg]

\* the non-blocking send on handlerAdded reaches closeWhenAllHandlersStopped
\* only while that goroutine waits for a first handler
HandlerAddedSignal(added) ==
  autoArmed \/ (added /\ running /\ ~closedCh)

\* a registration guard that lets every call through
RejectNever == FALSE

\* the guard of AddHandler and AddNoPublisherHandler
RejectWhenRunning == Running

Register(op, name, reg) ==
  IF RejectWhenRunning
  THEN /\ last' = [NoCall EXCEPT !.op = op, !.name = name,
                     !.err = "cannot add handler to running router"]
       /\ UNCHANGED << handlers, autoArmed >>
  ELSE /\ closer = None
       /\ handlers' = RouterAdd(name, reg)
       /\ autoArmed' = HandlerAddedSignal(~Registered(handlers, name))
       /\ last' = [NoCall EXCEPT !.op = op, !.name = name,
                     !.err = RouterAddResult(name)]

AddHandler(handlerName, subscribeTopic, publishTopic) ==
  /\ wiring = "router"
  /\ Register("AddHandler", handlerName,
              [sub |-> subscribeTopic, pub |-> publishTopic, kind |-> "relay",
               fn |-> "h1", state |-> "added", expect |-> None, subs |-> 0,
               chain |-> << >>])
  /\ UNCHANGED << bulk, wiring, middlewares, plugins, isRunning, running, closed, closedCh, closer, ctxDone,
                  runPc, runErr, closeCalls, queue, inflight, dlv,
                  published,
                  nextId >>

AddNoPublisherHandler(handlerName, subscribeTopic) ==
  /\ wiring = "router"
  /\ Register("AddNoPublisherHandler", handlerName,
              [sub |-> subscribeTopic, pub |-> None, kind |-> "consumer",
               fn |-> "h1", state |-> "added", expect |-> None, subs |-> 0,
               chain |-> << >>])
  /\ UNCHANGED << bulk, wiring, middlewares, plugins, isRunning, running, closed, closedCh, closer, ctxDone,
                  runPc, runErr, closeCalls, queue, inflight, dlv,
                  published,
                  nextId >>

\* cqrs processors add the handler straight to the router: handler name is the
\* name given to NewCommandHandler/NewEventHandler, the subscribe topic comes
\* from the marshaler's name of the handler's argument type.
BusRegister(op, name, reg) ==
  /\ closer = None
  /\ handlers' = RouterAdd(name, reg)
  /\ autoArmed' = HandlerAddedSignal(~Registered(handlers, name))
  /\ last' = [NoCall EXCEPT !.op = op, !.name = name,
                !.err = RouterAddResult(name)]

CommandSubscribeTopic == generateCommandTopic(StructName(HandlerArgType))

EventSubscribeTopic == generateEventTopic(StructName(HandlerArgType))

RegisterCommandHandler(commandName, handler) ==
  /\ wiring = "bus"
  /\ BusRegister("RegisterCommandHandler", commandName,
                 [sub |-> CommandSubscribeTopic, pub |-> None, kind |-> "command",
                  fn |-> handler, state |-> "added",
                  expect |-> StructName(HandlerArgType), subs |-> 0,
                  chain |-> << >>])
  /\ UNCHANGED << bulk, wiring, middlewares, plugins, isRunning, running, closed, closedCh, closer, ctxDone,
                  runPc, runErr, closeCalls, queue, inflight, dlv,
                  published,
                  nextId >>

RegisterEventHandler(eventName, handler) ==
  /\ wiring = "bus"
  /\ BusRegister("RegisterEventHandler", eventName,
                 [sub |-> EventSubscribeTopic, pub |-> None, kind |-> "event",
                  fn |-> handler, state |-> "added",
                  expect |-> StructName(HandlerArgType), subs |-> 0,
                  chain |-> << >>])
  /\ UNCHANGED << bulk, wiring, middlewares, plugins, isRunning, running, closed, closedCh, closer, ctxDone,
                  runPc, runErr, closeCalls, queue, inflight, dlv,
                  published,
                  nextId >>

\* --------------------------------------------- middleware and plugins
\* messageRouter.AddMiddleware: no running check and no result; the router
\* appends the interceptor to its chain
AddMiddleware(middleware) ==
  /\ wiring = "router"
  /\ Len(middlewares) < MaxMiddlewares
  /\ middlewares' = Append(middlewares, middleware)
  /\ last' = [NoCall EXCEPT !.op = "AddMiddleware", !.name = middleware]
  /\ UNCHANGED << bulk, wiring, plugins, handlers, isRunning, running, closed, closedCh,
                  closer, autoArmed, ctxDone, runPc, runErr, closeCalls, queue,
                  inflight, dlv, published, nextId >>

\* messageRouter.AddPlugin: no running check and no result; the router appends
\* the plugin to its list
AddPlugin(plugin) ==
  /\ wiring = "router"
  /\ Len(plugins) < MaxPlugins
  /\ plugins' = Append(plugins, plugin)
  /\ last' = [NoCall EXCEPT !.op = "AddPlugin", !.name = plugin]
  /\ UNCHANGED << bulk, wiring, middlewares, handlers, isRunning, running, closed,
                  closedCh, closer, autoArmed, ctxDone, runPc, runErr, closeCalls,
                  queue, inflight, dlv, published, nextId >>

\* ------------------------------------------------------------ Run
\* a Run that never refuses
AlreadyRunningNever == FALSE

\* router.Run refuses a router whose isRunning flag is already set
AlreadyRunning == isRunning

\* Run calls are made one after another: call c+1 is made after call c began
RunBegin(c) ==
  /\ runPc[c] = "idle"
  /\ \A d \in RunCalls : d < c => runPc[d] # "idle"
  /\ IF AlreadyRunning
     THEN /\ runPc' = [runPc EXCEPT ![c] = "done"]
          /\ runErr' = [runErr EXCEPT ![c] = "router is already running"]
          /\ UNCHANGED isRunning
     ELSE /\ isRunning' = TRUE
          /\ runPc' = [runPc EXCEPT ![c] = "begun"]
          /\ UNCHANGED runErr
  /\ last' = [NoCall EXCEPT !.op = "Run", !.id = c,
                !.err = IF AlreadyRunning THEN "router is already running" ELSE None]
  /\ UNCHANGED << bulk, wiring, middlewares, plugins, handlers, running, closed, closedCh, closer, autoArmed,
                  ctxDone, closeCalls, queue, inflight, dlv, published,
                  nextId >>

\* handler.run wraps the handler function in the router's middlewares, from
\* the last one added to the first: what results calls the first one added
\* first and the handler function last
RECURSIVE Wrapped(_, _, _)
Wrapped(mws, i, inner) ==
  IF i = 0 THEN inner ELSE Wrapped(mws, i - 1, << mws[i] >> \o inner)

\* the order in which an envelope passes the interceptors and the handler
\* function of a handler started with the chain mws
CallOrder(mws) == Wrapped(mws, Len(mws), << "handler" >>)

\* handlers RunHandlers has yet to start (h.started is false)
ToStart == {n \in AllNames : handlers[n].state = "added"}

\* RunHandlers subscribes every handler not yet started, under handlersLock;
\* the first Subscribe that fails ends Run with that error after the handlers
\* visited before it (map order) were started; Run's deferred cancel() then
\* cancels their context.
\* a RunHandlers that carries on after a failed Subscribe
RunHandlersResultSwallowed(failed) == "nil"

\* RunHandlers returns the error of the Subscribe that failed
RunHandlersResult(failed) ==
  IF failed = None THEN "nil" ELSE "cannot subscribe topic"

RunHandlers(c, failed, startedFirst) ==
  /\ runPc[c] = "begun"
  /\ closer = None
  /\ failed \in ToStart \cup {None}
  /\ startedFirst \subseteq ToStart \ {failed}
  /\ failed = None => startedFirst = ToStart
  /\ handlers' = [n \in AllNames |->
                    IF n \in startedFirst
                    THEN [handlers[n] EXCEPT !.state = "started", !.subs = @ + 1,
                                             !.chain = CallOrder(middlewares)]
                    ELSE handlers[n]]
  /\ IF RunHandlersResult(failed) = "nil"
     THEN /\ runPc' = [runPc EXCEPT ![c] = "subscribed"]
          /\ UNCHANGED << runErr, ctxDone >>
     ELSE /\ runPc' = [runPc EXCEPT ![c] = "done"]
          /\ runErr' = [runErr EXCEPT ![c] = RunHandlersResult(failed)]
          /\ ctxDone' = TRUE
  /\ UNCHANGED << bulk, wiring, middlewares, plugins, isRunning, running, closed, closedCh, closer, autoArmed,
                  closeCalls, queue, inflight, dlv, published, nextId,
                  last >>

\* Run calls every plugin before RunHandlers; one that returns an error ends
\* Run with it, the handlers untouched (plugins that return nil leave no trace
\* and are part of the RunHandlers step)
RunPluginFails(c) ==
  /\ runPc[c] = "begun"
  /\ plugins # << >>
  /\ runPc' = [runPc EXCEPT ![c] = "done"]
  /\ runErr' = [runErr EXCEPT ![c] = "cannot initialize plugin"]
  /\ ctxDone' = TRUE
  /\ UNCHANGED << bulk, wiring, middlewares, plugins, handlers, isRunning, running, closed,
                  closedCh, closer, autoArmed, closeCalls, queue, inflight, dlv,
                  published, nextId, last >>

\* close(r.running), then go closeWhenAllHandlersStopped: with no handler in
\* the registry that goroutine first waits for handlerAdded
RunStarted(c) ==
  /\ runPc[c] = "subscribed"
  /\ running' = TRUE
  /\ autoArmed' = (RegisteredNames(handlers) # {})
  /\ runPc' = [runPc EXCEPT ![c] = "waitClosing"]
  /\ UNCHANGED << bulk, wiring, middlewares, plugins, handlers, isRunning, closed, closedCh, closer, ctxDone,
                  runErr, closeCalls, queue, inflight, dlv, published,
                  nextId, last >>

\* Run is blocked on closingInProgressCh and then closedCh
RunMayReturn == closedCh

RunReturn(c) ==
  /\ runPc[c] = "waitClosing"
  /\ RunMayReturn
  /\ runPc' = [runPc EXCEPT ![c] = "done"]
  /\ runErr' = [runErr EXCEPT ![c] = "nil"]
  /\ ctxDone' = TRUE
  /\ UNCHANGED << bulk, wiring, middlewares, plugins, handlers, isRunning, running, closed, closedCh, closer,
                  autoArmed, closeCalls, queue, inflight, dlv, published,
                  nextId, last >>

\* the caller of Run cancels the context it passed
CancelCtx ==
  /\ ~ctxDone
  /\ \E c \in RunCalls : runPc[c] \in {"begun", "subscribed", "waitClosing"}
  /\ ctxDone' = TRUE
  /\ UNCHANGED << bulk, wiring, middlewares, plugins, handlers, isRunning, running, closed, closedCh, closer,
                  autoArmed, runPc, runErr, closeCalls, queue, inflight,
                  dlv, published, nextId, last >>

\* ---------------------------------------------------------- Close
\* router.Close when r.closed is already set: return nil
CloseAgain ==
  /\ wiring = "router"
  /\ closeCalls < MaxCloseCalls
  /\ closer = None
  /\ closed
  /\ closeCalls' = closeCalls + 1
  /\ last' = [NoCall EXCEPT !.op = "Close", !.err = "nil"]
  /\ UNCHANGED << bulk, wiring, middlewares, plugins, handlers, isRunning, running, closed, closedCh, closer,
                  autoArmed, ctxDone, runPc, runErr, queue, inflight, dlv,
                  published, nextId >>

\* router.Close on a router not yet closed: set r.closed, close
\* closingInProgressCh and wait for the handlers, holding both locks
CloseBegin ==
  /\ wiring = "router"
  /\ closeCalls < MaxCloseCalls
  /\ closer = None
  /\ ~closed
  /\ closed' = TRUE
  /\ closer' = "user"
  /\ closeCalls' = closeCalls + 1
  /\ UNCHANGED << bulk, wiring, middlewares, plugins, handlers, isRunning, running, closedCh, autoArmed, ctxDone,
                  runPc, runErr, queue, inflight, dlv, published, nextId, last >>

\* closeWhenAllHandlersStopped: once handlersWg is zero and the router is not
\* closed yet, it calls router.Close itself
AutoClose ==
  /\ autoArmed
  /\ handlersWg = 0
  /\ closer = None
  /\ ~closed
  /\ closed' = TRUE
  /\ closer' = "auto"
  /\ UNCHANGED << bulk, wiring, middlewares, plugins, handlers, isRunning, running, closedCh, autoArmed, ctxDone,
                  runPc, runErr, closeCalls, queue, inflight, dlv, published, nextId,
                  last >>

\* waitForHandlers: both wait groups are zero
Drained == handlersWg = 0 /\ runningHandlersWg = 0

\* the CloseTimeout timer matters only while something is still running
CloseTimeoutElapsed == ~Drained

\* a wait without the timeout
WaitOverWhenDrained == Drained

\* waitForHandlers returns when drained, or when CloseTimeout has passed
WaitOver == Drained \/ CloseTimeoutElapsed

\* a Close that does not report the timeout
CloseResultNil == "nil"

\* router.Close returns the timeout error when the wait was cut short
CloseResult == IF Drained THEN "nil" ELSE "router close timeout"

CloseFinish ==
  /\ closer # None
  /\ WaitOver
  /\ closedCh' = TRUE
  /\ closer' = None
  /\ last' = IF closer = "user"
             THEN [NoCall EXCEPT !.op = "Close", !.err = CloseResult]
             ELSE last
  /\ UNCHANGED << bulk, wiring, middlewares, plugins, handlers, isRunning, running, closed, autoArmed, ctxDone,
                  runPc, runErr, closeCalls, queue, inflight, dlv, published, nextId >>

\* ------------------------------------------------------- transport
\* subscriptions a Publish on `topic` reaches: one per started handler
Subscribers(hs, topic) ==
  {n \in AllNames : hs[n].state = "started" /\ hs[n].sub = topic}

\* a transport that hands every envelope to a subscription twice
DeliverTwice(q, hs, topic, env) ==
  [n \in AllNames |->
     IF n \in Subscribers(hs, topic) THEN Append(Append(q[n], env), env) ELSE q[n]]

\* each subscription gets its own copy of the envelope
Deliver(q, hs, topic, env) ==
  [n \in AllNames |-> IF n \in Subscribers(hs, topic) THEN Append(q[n], env) ELSE q[n]]

PubRecord(id, topic, by, kind, name, meta, payload, ok, hs) ==
  [id |-> id, topic |-> topic, by |-> by, kind |-> kind, name |-> name,
   meta |-> meta, payload |-> payload, ok |-> ok,
   to |-> IF ok THEN Subscribers(hs, topic) ELSE {}]

\* an application publishes a raw envelope on a relay topic (pubSub.Publish)
ClientPublish(topic) ==
  /\ wiring = "router"
  /\ published' = published \cup
                    {PubRecord(nextId, topic, "client", "raw", None, {}, "p0", TRUE, handlers)}
  /\ queue' = Deliver(queue, handlers, topic,
                      [id |-> nextId, name |-> None, payload |-> "p0"])
  /\ nextId' = nextId + 1
  /\ UNCHANGED << bulk, wiring, middlewares, plugins, handlers, isRunning, running, closed, closedCh, closer,
                  autoArmed, ctxDone, runPc, runErr, closeCalls, inflight,
                  dlv, last >>

\* another service publishes an envelope of its own making on a topic of the
\* bus (cfg.Publisher is shared transport)
RawPublish(topic, name, payload) ==
  /\ wiring = "bus"
  /\ published' = published \cup
                    {PubRecord(nextId, topic, "client", "raw", name, {}, payload, TRUE, handlers)}
  /\ queue' = Deliver(queue, handlers, topic,
                      [id |-> nextId, name |-> name, payload |-> payload])
  /\ nextId' = nextId + 1
  /\ UNCHANGED << bulk, wiring, middlewares, plugins, handlers, isRunning, running, closed, closedCh, closer,
                  autoArmed, ctxDone, runPc, runErr, closeCalls, inflight,
                  dlv, last >>

\* ------------------------------------------------------ bus publish
\* a pre-send hook that stamps nothing
OnSendUnstamped(metadata) == metadata

\* CommandBusConfig.OnSend: log, set "sent_at" in the message's metadata
OnSend(metadata) == metadata \cup {"sent_at"}

\* what OnSend returns
OnSendError == "nil"

\* EventBusConfig.OnPublish: log, set "published_at" in the message's metadata
OnPublish(metadata) == metadata \cup {"published_at"}

\* what OnPublish returns
OnPublishError == "nil"

\* commandBus.Send / eventBus.Publish: name the value with the marshaler,
\* build the envelope, run the pre-send hook on it and give up if the hook
\* fails, publish on the generated topic; the transport's error is the
\* call's error.
BusPublish(op, kind, name, topic, metadata, hookError, transportOk) ==
  /\ wiring = "bus"
  /\ IF hookError # "nil"
     THEN /\ last' = [NoCall EXCEPT !.op = op, !.name = name, !.id = nextId,
                        !.err = hookError]
          /\ UNCHANGED << published, queue >>
     ELSE /\ published' = published \cup
                 {PubRecord(nextId, topic, "bus", kind, name, metadata, "p0",
                            transportOk, handlers)}
          /\ queue' = IF transportOk
                      THEN Deliver(queue, handlers, topic,
                                   [id |-> nextId, name |-> name, payload |-> "p0"])
                      ELSE queue
          /\ last' = [NoCall EXCEPT !.op = op, !.name = name, !.id = nextId,
                        !.err = IF transportOk THEN "nil" ELSE "publish failed"]
  /\ nextId' = nextId + 1
  /\ UNCHANGED << bulk, wiring, middlewares, plugins, handlers, isRunning, running, closed, closedCh, closer,
                  autoArmed, ctxDone, runPc, runErr, closeCalls, inflight,
                  dlv >>

PublishCommand(cmd, transportOk) ==
  BusPublish("PublishCommand", "command", StructName(cmd),
             generateCommandTopic(StructName(cmd)), OnSend({}), OnSendError,
             transportOk)

PublishEvent(evt, transportOk) ==
  BusPublish("PublishEvent", "event", StructName(evt),
             generateEventTopic(StructName(evt)), OnPublish({}), OnPublishError,
             transportOk)

\* ------------------------------------------------ consumption loops
\* a marshaler that decodes whatever it is given
UnmarshalAnything(env) == "nil"

\* marshaler.Unmarshal (cqrs.JSONMarshaler) of the payload into the handler's
\* argument: fails on bytes that are no JSON document
Unmarshal(env) == IF env.payload = "garbled" THEN "err" ELSE "nil"

\* whether the router-level handler function reaches the registered handler:
\* the cqrs processors first compare the envelope's name with the name of the
\* handler's argument type
Invokes(reg, env) ==
  \/ reg.kind \in {"relay", "consumer"}
  \/ env.name = reg.expect /\ Unmarshal(env) = "nil"

\* a hook that logs the handler's error and reports success
OnHandleSwallows(kind, handlerResult) == "nil"

\* the OnHandle hooks of the command and the event processor: call the
\* registered handler, log name, duration and error, return the handler's error
OnHandle(kind, handlerResult) == handlerResult

\* error result of the router-level handler function; "changed" is a handler
\* that rewrote the payload in place and returned nil
HandlerFuncResult(reg, env, outcome) ==
  IF Invokes(reg, env)
  THEN (IF reg.kind \in {"command", "event"} THEN OnHandle(reg.kind, outcome)
        ELSE IF outcome = "changed" THEN "nil" ELSE outcome)
  ELSE IF reg.kind \in {"command", "event"} /\ env.name = reg.expect
       THEN Unmarshal(env)                   \* the decode error
  ELSE IF reg.kind = "command" THEN "err"   \* unexpected command type
  ELSE "nil"                                 \* other event type: ignored

\* a handler function that never returns a message
ProducedNone(reg, result) == 0

\* a handler function that returns the message whatever the handler said
ProducedAlways(reg, result) == 1

\* messages the handler function returns for publishing
Produced(reg, result) ==
  IF reg.kind = "relay" /\ result = "nil" THEN 1 ELSE 0

\* a relay that hands on a message of its own making
HandlerFuncOutputFresh(env, outcome) == [id |-> 0, name |-> None, payload |-> "p1"]

\* the message the relay's handler function returns on success: the inbound
\* message itself, as the handler left it
HandlerFuncOutput(env, outcome) ==
  [id |-> env.id, name |-> env.name,
   payload |-> IF outcome = "changed" THEN "p1" ELSE env.payload]

\* a handleMessage that nacks whatever the handler returned
SettleAlwaysNack(result, produced, pubOk) == "nack"

\* a handleMessage that settles nothing
SettleNever(result, produced, pubOk) == "none"

\* a handleMessage that lets a panic through unsettled
SettlePanicLost(result, produced, pubOk) ==
  IF result = "panic" THEN "none"
  ELSE IF result # "nil" THEN "nack"
  ELSE IF produced > 0 /\ ~pubOk THEN "nack"
  ELSE "ack"

\* a handleMessage that acks whatever the handler returned
SettleAlwaysAck(result, produced, pubOk) == "ack"

\* handleMessage: nack on error, on recovered panic and on failed publish
Settle(result, produced, pubOk) ==
  IF result # "nil" THEN "nack"
  ELSE IF produced > 0 /\ ~pubOk THEN "nack"
  ELSE "ack"

\* the loop of a started handler runs until its subscription is closed
LoopOpen(h) == handlers[h].state = "started"

\* a subscription that hands out envelopes without waiting
PreviousSettledOrNot(h) == TRUE

\* the subscription hands out its next envelope only after the previous one
\* was acked or nacked (message.Subscriber: "to receive the next message, Ack
\* must be called on the received message")
PreviousSettled(h) == inflight[h].id = 0

\* the loop takes the next envelope from its subscription and starts
\* handleMessage on it
HandleStart(h) ==
  /\ LoopOpen(h)
  /\ queue[h] # << >>
  /\ PreviousSettled(h)
  /\ LET env == Head(queue[h]) IN
       /\ inflight' = [inflight EXCEPT ![h] =
                         [id |-> env.id, name |-> env.name, payload |-> env.payload,
                          reg |-> handlers[h]]]
       /\ queue' = [queue EXCEPT ![h] = Tail(@)]
       /\ dlv' = IF Invokes(handlers[h], env)
                 THEN [dlv EXCEPT ![h][env.id].inv = @ + 1]
                 ELSE dlv
  /\ UNCHANGED << bulk, wiring, middlewares, plugins, handlers, isRunning, running, closed, closedCh, closer,
                  autoArmed, ctxDone, runPc, runErr, closeCalls, published,
                  nextId, last >>

Outcomes == {"nil", "changed", "err", "panic"}

HandleFinish(h, outcome, pubOk) ==
  /\ inflight[h].id # 0
  /\ LET env == inflight[h]
         reg == inflight[h].reg
         result == HandlerFuncResult(reg, env, outcome)
         produced == Produced(reg, result)
         settle == Settle(result, produced, pubOk)
         sent == IF produced > 0 /\ pubOk THEN produced ELSE 0
         out == HandlerFuncOutput(env, outcome)
     IN
       /\ Invokes(reg, env) \/ outcome = "nil"
       /\ outcome = "changed" => reg.kind = "relay"
       /\ produced > 0 \/ pubOk
       /\ inflight' = [inflight EXCEPT ![h] = NoFlight]
       /\ dlv' = [dlv EXCEPT ![h][env.id] =
                   [@ EXCEPT !.err = @ + (IF Invokes(reg, env) /\ outcome = "err" THEN 1 ELSE 0),
                             !.panic = @ + (IF Invokes(reg, env) /\ outcome = "panic" THEN 1 ELSE 0),
                             !.sent = @ + sent,
                             !.ack = @ + (IF settle = "ack" THEN 1 ELSE 0),
                             !.nack = @ + (IF settle = "nack" THEN 1 ELSE 0)]]
       /\ IF produced > 0
          THEN /\ published' = published \cup
                      {PubRecord(out.id, reg.pub, h, "raw", out.name, {}, out.payload,
                                 pubOk, handlers)}
               /\ queue' = IF pubOk
                           THEN Deliver(queue, handlers, reg.pub, out)
                           ELSE queue
          ELSE UNCHANGED << published, queue >>
  /\ UNCHANGED << bulk, wiring, middlewares, plugins, handlers, isRunning, running, closed, closedCh, closer,
                  autoArmed, ctxDone, runPc, runErr, closeCalls, nextId,
                  last >>

\* the subscription's channel is closed once the router is closing or the
\* context is cancelled; the loop ends and releases handlersWg
LoopStop(h) ==
  /\ LoopOpen(h)
  /\ closed \/ ctxDone
  /\ handlers' = [handlers EXCEPT ![h].state = "stopped"]
  /\ UNCHANGED << bulk, wiring, middlewares, plugins, isRunning, running, closed, closedCh, closer, autoArmed,
                  ctxDone, runPc, runErr, closeCalls, queue, inflight, dlv,
                  published, nextId, last >>

\* the stopped handler's goroutine deletes its entry under handlersLock
LoopRemove(h) ==
  /\ handlers[h].state = "stopped"
  /\ closer = None
  /\ handlers' = [handlers EXCEPT ![h] = NoHandler]
  /\ UNCHANGED << bulk, wiring, middlewares, plugins, isRunning, running, closed, closedCh, closer, autoArmed,
                  ctxDone, runPc, runErr, closeCalls, queue, inflight, dlv,
                  published, nextId, last >>

\* ------------------------------------------------------ specification
\* a second registration under a name brings another handler function
NextHandlerFn(n) == IF Registered(handlers, n) THEN "h2" ELSE "h1"

Registration ==
  \/ AddHandler("order_processor", "orders.created", "orders.processed")
  \/ \E s \in Topics : AddNoPublisherHandler("payment_executor", s)
  \/ \E n \in BusNames : RegisterCommandHandler(n, NextHandlerFn(n))
  \/ \E n \in BusNames : RegisterEventHandler(n, NextHandlerFn(n))

Publishing(maxMsgs) ==
  \/ \E t \in Topics : nextId <= maxMsgs /\ ClientPublish(t)
  \/ \E t \in CommandTypes, ok \in BOOLEAN : nextId <= maxMsgs /\ PublishCommand(t, ok)
  \/ \E t \in EventTypes, ok \in BOOLEAN : nextId <= maxMsgs /\ PublishEvent(t, ok)

Handling ==
  \/ \E h \in AllNames : HandleStart(h)
  \/ \E h \in AllNames, o \in Outcomes, ok \in BOOLEAN : HandleFinish(h, o, ok)

Lifecycle ==
  \/ \E c \in RunCalls : RunBegin(c)
  \/ \E c \in RunCalls, f \in AllNames \cup {None}, S \in SUBSET AllNames :
       RunHandlers(c, f, S)
  \/ \E c \in RunCalls : RunStarted(c)
  \/ \E c \in RunCalls : RunReturn(c)
  \/ CancelCtx
  \/ CloseAgain
  \/ CloseBegin
  \/ AutoClose
  \/ CloseFinish
  \/ \E h \in AllNames : LoopStop(h)
  \/ \E h \in AllNames : LoopRemove(h)

\* the whole engine: registration, lifecycle, publishing and consumption
Next == Registration \/ Lifecycle \/ Publishing(MaxMsgs) \/ Handling

Spec == Init /\ [][Next]_vars

\* the engine between start-up and shutdown: handlers are registered, one Run
\* starts their loops, and envelopes flow; nobody closes or cancels
StartUp ==
  \/ RunBegin(1)
  \/ RunHandlers(1, None, ToStart)
  \/ RunStarted(1)

FlowNext == Registration \/ StartUp \/ Publishing(MaxFlowMsgs) \/ Handling

FlowSpec == Init /\ [][FlowNext]_vars

\* the engine while it is being configured, started and stopped, with no
\* envelope on the transport
Configuration ==
  \/ \E m \in MiddlewareNames : AddMiddleware(m)
  \/ \E p \in PluginNames : AddPlugin(p)
  \/ \E c \in RunCalls : RunPluginFails(c)

ConfigNext == Registration \/ Configuration \/ Lifecycle

ConfigSpec == Init /\ [][ConfigNext]_vars

\* the engine while it is set up and started: registrations, interceptors and
\* plugins are added, clients publish, one Run starts the loops
SetupNext ==
  \/ Registration
  \/ \E m \in MiddlewareNames : AddMiddleware(m)
  \/ \E p \in PluginNames : AddPlugin(p)
  \/ StartUp
  \/ Publishing(MaxMsgs)
  \/ Handling

SetupSpec == Init /\ [][SetupNext]_vars

\* the bus at work on a transport that also carries envelopes it cannot
\* decode
GarbledPublishing ==
  \E t \in {CommandSubscribeTopic, EventSubscribeTopic} :
    nextId <= MaxFlowMsgs /\ RawPublish(t, StructName(HandlerArgType), "garbled")

DecodeNext ==
  \/ Registration
  \/ StartUp
  \/ Publishing(MaxFlowMsgs)
  \/ GarbledPublishing
  \/ Handling

DecodeSpec == Init /\ [][DecodeNext]_vars

\* the pipeline of the example: order_processor, payment_processor and
\* payment_executor are registered, one Run starts them, and clients publish
\* orders; a loop with an envelope waiting takes it, and a handler at work
\* returns
PipelineRegistration ==
  \/ AddHandler("order_processor", "orders.created", "orders.processed")
  \/ AddHandler("payment_processor", "orders.processed", "payments.requests")
  \/ AddNoPublisherHandler("payment_executor", "payments.requests")

PipelineNext ==
  \/ PipelineRegistration
  \/ StartUp
  \/ nextId <= MaxFlowMsgs /\ ClientPublish("orders.created")
  \/ Handling

PipelineSpec ==
  /\ Init /\ [][PipelineNext]_vars
  /\ \A h \in RelayNames : WF_vars(HandleStart(h))
  /\ \A h \in RelayNames :
       WF_vars(\E o \in Outcomes, ok \in BOOLEAN : HandleFinish(h, o, ok))

\* ------------------------------------------------------ bulk mail
\* the elements of the list handed to SendBulkEmails: a message the server
\* accepts, one it refuses, one without sender or recipients, a nil pointer
MessageKinds == {"ok", "refused", "invalid", "nil"}

MailProviders == {"smtp", "gomail"}

RECURSIVE MessageLists(_)
MessageLists(n) ==
  IF n = 0 THEN {<< >>}
  ELSE MessageLists(n - 1) \cup
       {Append(l, m) : l \in {x \in MessageLists(n - 1) : Len(x) = n - 1},
                       m \in MessageKinds}

\* smtpProvider.SendEmail: validate (nil and incomplete messages fail), build,
\* send over a connection of its own
SmtpSendEmail(message) == IF message = "ok" THEN "nil" ELSE "err"

\* goMailProvider.buildGoMailMessage reads message.From first, without a nil
\* check
BuildGoMailMessage(message) == IF message = "nil" THEN "panic" ELSE "nil"

\* gomail.Send over the shared connection
GoMailSend(message) == IF message = "ok" THEN "nil" ELSE "err"

\* one more result appended by the loop
BulkRecorded(result) ==
  [bulk EXCEPT !.pc = "loop",
               !.results = Append(@, IF result = "nil" THEN "sent" ELSE "failed"),
               !.errors = IF result = "nil" THEN @ ELSE Append(@, result),
               !.successCount = IF result = "nil" THEN @ + 1 ELSE @,
               !.failureCount = IF result = "nil" THEN @ ELSE @ + 1]

\* len(messages) == 0: an empty response
BulkReturnEmpty ==
  /\ bulk.pc = "called" /\ bulk.messages = << >>
  /\ bulk' = [bulk EXCEPT !.pc = "returned", !.err = "nil"]
  /\ UNCHANGED << wiring, middlewares, plugins, handlers, isRunning, running,
                  closed, closedCh, closer, autoArmed, ctxDone, runPc, runErr,
                  closeCalls, queue, inflight, dlv, published, nextId, last >>

SmtpLoopStart ==
  /\ bulk.pc = "called" /\ bulk.messages # << >> /\ bulk.provider = "smtp"
  /\ bulk' = [bulk EXCEPT !.pc = "loop"]
  /\ UNCHANGED << wiring, middlewares, plugins, handlers, isRunning, running,
                  closed, closedCh, closer, autoArmed, ctxDone, runPc, runErr,
                  closeCalls, queue, inflight, dlv, published, nextId, last >>

\* g.dialer.Dial() opened the connection
GoMailDial ==
  /\ bulk.pc = "called" /\ bulk.messages # << >> /\ bulk.provider = "gomail"
  /\ bulk.dialOk
  /\ bulk' = [bulk EXCEPT !.pc = "loop"]
  /\ UNCHANGED << wiring, middlewares, plugins, handlers, isRunning, running,
                  closed, closedCh, closer, autoArmed, ctxDone, runPc, runErr,
                  closeCalls, queue, inflight, dlv, published, nextId, last >>

\* g.dialer.Dial() failed: every message is recorded as failed
GoMailDialFails ==
  /\ bulk.pc = "called" /\ bulk.messages # << >> /\ bulk.provider = "gomail"
  /\ ~bulk.dialOk
  /\ bulk' = [bulk EXCEPT !.pc = "returned", !.err = "nil",
                          !.results = [k \in 1..Len(bulk.messages) |-> "failed"],
                          !.errors = [k \in 1..Len(bulk.messages) |-> "err"],
                          !.failureCount = Len(bulk.messages)]
  /\ UNCHANGED << wiring, middlewares, plugins, handlers, isRunning, running,
                  closed, closedCh, closer, autoArmed, ctxDone, runPc, runErr,
                  closeCalls, queue, inflight, dlv, published, nextId, last >>

\* one round of the loop of smtpProvider.SendBulkEmails
SmtpLoopNext ==
  /\ bulk.pc = "loop" /\ bulk.provider = "smtp"
  /\ Len(bulk.results) < Len(bulk.messages)
  /\ bulk' = BulkRecorded(SmtpSendEmail(bulk.messages[Len(bulk.results) + 1]))
  /\ UNCHANGED << wiring, middlewares, plugins, handlers, isRunning, running,
                  closed, closedCh, closer, autoArmed, ctxDone, runPc, runErr,
                  closeCalls, queue, inflight, dlv, published, nextId, last >>

\* one round of the loop of goMailProvider.SendBulkEmails
GoMailLoopNext ==
  /\ bulk.pc = "loop" /\ bulk.provider = "gomail"
  /\ Len(bulk.results) < Len(bulk.messages)
  /\ LET message == bulk.messages[Len(bulk.results) + 1] IN
       bulk' = IF BuildGoMailMessage(message) = "panic"
               THEN [bulk EXCEPT !.pc = "panicked"]
               ELSE BulkRecorded(GoMailSend(message))
  /\ UNCHANGED << wiring, middlewares, plugins, handlers, isRunning, running,
                  closed, closedCh, closer, autoArmed, ctxDone, runPc, runErr,
                  closeCalls, queue, inflight, dlv, published, nextId, last >>

\* the loop is over: return the response and a nil error
BulkReturn ==
  /\ bulk.pc = "loop"
  /\ Len(bulk.results) = Len(bulk.messages)
  /\ bulk' = [bulk EXCEPT !.pc = "returned", !.err = "nil"]
  /\ UNCHANGED << wiring, middlewares, plugins, handlers, isRunning, running,
                  closed, closedCh, closer, autoArmed, ctxDone, runPc, runErr,
                  closeCalls, queue, inflight, dlv, published, nextId, last >>

\* SendBulkEmails of either provider, called with a list of up to MaxBulk
\* messages
BulkInit ==
  /\ EngineInit
  /\ \E p \in MailProviders, l \in MessageLists(MaxBulk), d \in BOOLEAN :
       /\ p = "smtp" => d
       /\ bulk = [NoBulk EXCEPT !.provider = p, !.messages = l, !.dialOk = d,
                                !.pc = "called"]

BulkNext ==
  \/ BulkReturnEmpty
  \/ SmtpLoopStart
  \/ GoMailDial
  \/ GoMailDialFails
  \/ SmtpLoopNext
  \/ GoMailLoopNext
  \/ BulkReturn

BulkSpec == BulkInit /\ [][BulkNext]_vars

\* scheduling: a Close that has begun finishes (its wait is bounded by
\* CloseTimeout) and a Run whose wait is over returns
FairSpec ==
  /\ Spec
  /\ WF_vars(CloseFinish)
  /\ \A c \in RunCalls : WF_vars(RunReturn(c))

\* scheduling after a cancellation: besides the above, a subscription whose
\* context is cancelled closes its channel, so its loop ends, and the
\* goroutine waiting for the handlers to stop gets to call Close
CancelFairSpec ==
  /\ FairSpec
  /\ \A h \in AllNames : WF_vars(LoopStop(h))
  /\ WF_vars(AutoClose)

\* ============================================================ claims
\* the relay registration calls the engine is driven with
AddCall ==
  \/ AddHandler("order_processor", "orders.created", "orders.processed")
  \/ \E s \in Topics : AddNoPublisherHandler("payment_executor", s)

\* C1: every AddHandler or AddNoPublisherHandler call made while Running()
\* is true returns an error and leaves the registered handlers as they were.
C1_RunningRejectsRegistration ==
  [][(Running /\ AddCall) =>
        /\ last'.err = "cannot add handler to running router"
        /\ handlers' = handlers
        /\ Cardinality(RegisteredNames(handlers')) = Cardinality(RegisteredNames(handlers))]_vars

\* a registration call was made on a running router and came back rejected
C1_Witness ==
  /\ Running
  /\ last.op \in {"AddHandler", "AddNoPublisherHandler"}
  /\ last.err = "cannot add handler to running router"
  /\ RegisteredNames(handlers) # {}

\* C2 (as claimed): a second RegisterCommandHandler for a name that already
\* has a command handler returns a duplicate-registration error, without
\* panicking and without succeeding, and the first registration stays bound.
C2_DuplicateCommandIsAnError ==
  [][\A n \in BusNames :
        (handlers[n].kind = "command" /\ RegisterCommandHandler(n, "h2")) =>
           /\ last'.err = "duplicate command handler"
           /\ handlers'[n] = handlers[n]]_vars

\* the envelope PublishCommand/PublishEvent hands to the transport
BusEnvelope(t) == [id |-> nextId, name |-> StructName(t), payload |-> "p0"]

\* C3 (as claimed): with event handlers registered for an event name and
\* their loops running, a published event of that name reaches the loop of
\* every one of them, so each is invoked for it.
C3_EventReachesItsHandlers ==
  [][\A t \in EventTypes, n \in BusNames :
        (/\ Running
         /\ PublishEvent(t, TRUE)
         /\ n = StructName(t)
         /\ handlers[n].kind = "event"
         /\ LoopOpen(n)) =>
           queue'[n] = Append(queue[n], BusEnvelope(t))]_vars

\* C4 (as claimed): with one command handler registered for a command name
\* and its loop running, a published command of that name is received by
\* that handler's loop and by no other loop.
C4_CommandReachesItsHandler ==
  [][\A t \in CommandTypes, n \in BusNames :
        (/\ Running
         /\ PublishCommand(t, TRUE)
         /\ n = StructName(t)
         /\ handlers[n].kind = "command"
         /\ LoopOpen(n)) =>
           /\ queue'[n] = Append(queue[n], BusEnvelope(t))
           /\ \A m \in AllNames \ {n} : queue'[m] = queue[m]]_vars

\* the names command handlers are registered under
CommandHandlerNames == {n \in AllNames : handlers[n].kind = "command"}

\* C5 (as claimed): a command whose name has no registered command handler is
\* published without error and no loop ever receives it.
C5_UnhandledCommandStaysUnconsumed ==
  [][\A t \in CommandTypes :
        (PublishCommand(t, TRUE) /\ StructName(t) \notin CommandHandlerNames) =>
           /\ last'.err = "nil"
           /\ queue' = queue]_vars

\* C6: a handler error nacks that envelope and never acks it, leaves every
\* loop running and leaves the sibling loops' envelopes untouched.
C6_ErrorIsNackedLoopsGoOn ==
  /\ [](\A h \in AllNames, i \in MsgIds :
          (dlv[h][i].inv = 1 /\ dlv[h][i].err = 1) =>
             (dlv[h][i].nack = 1 /\ dlv[h][i].ack = 0))
  /\ [][\A h \in AllNames, ok \in BOOLEAN :
          HandleFinish(h, "err", ok) =>
            /\ handlers' = handlers
            /\ dlv'[h][inflight[h].id].nack = dlv[h][inflight[h].id].nack + 1
            /\ dlv'[h][inflight[h].id].ack = dlv[h][inflight[h].id].ack
            /\ \A g \in AllNames \ {h} :
                 /\ queue'[g] = queue[g]
                 /\ inflight'[g] = inflight[g]
                 /\ dlv'[g] = dlv[g]]_vars

\* a handler nacked one envelope after an error and acked the next one, while
\* a sibling loop acked the envelope the first one failed on
C6_Witness ==
  \E h \in AllNames, g \in AllNames :
    /\ h # g
    /\ dlv[h][1].err = 1 /\ dlv[h][1].nack = 1 /\ dlv[h][1].ack = 0
    /\ dlv[h][2].ack = 1
    /\ dlv[g][1].ack = 1
    /\ LoopOpen(h) /\ LoopOpen(g)

\* C7: once Close has been called on a router whose Run is blocked in the
\* running state, that Run returns, also with a handler still in flight.
C7_CloseEndsRun ==
  \A c \in RunCalls : (runPc[c] = "waitClosing" /\ closed) ~> (runPc[c] = "done")

\* Close timed out on a handler still in flight, and Run has returned
C7_Witness ==
  /\ \E c \in RunCalls : runPc[c] = "done" /\ runErr[c] = "nil"
  /\ last.op = "Close" /\ last.err = "router close timeout"
  /\ \E h \in AllNames : inflight[h].id # 0

NoRunYet == \A c \in RunCalls : runPc[c] = "idle"

\* C8 (as claimed): Close on a router that was never run returns no error and
\* changes neither the lifecycle state nor the registrations.
C8_CloseBeforeRunIsNoOp ==
  [][(NoRunYet /\ (CloseBegin \/ CloseFinish \/ CloseAgain)) =>
        /\ closed' = closed
        /\ running' = running
        /\ handlers' = handlers
        /\ (last'.op = "Close" => last'.err = "nil")]_vars

\* C9 (as claimed): a Run call made on a closed router returns an error at
\* once; it opens no loop and the router does not start running.
C9_RunAfterCloseIsRejected ==
  [][\A c \in RunCalls :
        (closedCh /\ RunBegin(c)) =>
           /\ runPc'[c] = "done"
           /\ runErr'[c] \notin {None, "nil"}]_vars

\* C10: a Run call on a router whose Run has already begun returns the
\* already-running error without blocking, opens no loop and leaves the
\* running loops alone; no registration ever has more than one subscription.
C10_SecondRunIsRejected ==
  /\ [](\A n \in AllNames : handlers[n].subs <= 1)
  /\ [][\A c \in RunCalls :
          (isRunning /\ RunBegin(c)) =>
            /\ runPc'[c] = "done"
            /\ runErr'[c] = "router is already running"
            /\ handlers' = handlers
            /\ queue' = queue /\ inflight' = inflight
            /\ running' = running]_vars

\* a second Run was rejected while the first is blocked with a loop open
C10_Witness ==
  \E c \in RunCalls, d \in RunCalls, n \in AllNames :
    /\ runPc[c] = "waitClosing"
    /\ runPc[d] = "done" /\ runErr[d] = "router is already running"
    /\ LoopOpen(n) /\ handlers[n].subs = 1

\* the prefix the default naming gives each kind of message
KindPrefix(kind) == IF kind = "command" THEN "commands." ELSE "events."

\* C11: the topic of a command named n is "commands." + n and the topic of an
\* event named n is "events." + n, for the names given on the publishing side
\* and for the names given on the subscribing side; the same kind and name
\* give the same topic on both sides.
C11_TopicNaming ==
  /\ generateCommandTopic("CreateOrder") = "commands.CreateOrder"
  /\ generateEventTopic("OrderCreated") = "events.OrderCreated"
  /\ \A p \in published :
       p.by = "bus" => p.topic = KindPrefix(p.kind) \o p.name
  /\ \A n \in AllNames :
       handlers[n].kind \in {"command", "event"} =>
         handlers[n].sub = KindPrefix(handlers[n].kind) \o handlers[n].expect
  /\ \A p \in published, n \in AllNames :
       (p.by = "bus" /\ handlers[n].kind = p.kind /\ handlers[n].expect = p.name) =>
         handlers[n].sub = p.topic

\* a command and an event were published and a command handler is subscribed
\* under the very name the command was published under
C11_Witness ==
  \E p \in published, q \in published, n \in AllNames :
    /\ p.kind = "command" /\ handlers[n].kind = "command"
    /\ handlers[n].expect = p.name /\ handlers[n].sub = p.topic
    /\ q.kind = "event" /\ q.topic = "events.OrderCreated"

\* the loop of relay h settles its envelope after the handler returned nil
\* (o = "nil": envelope untouched, o = "changed": payload rewritten)
RelayReturnsNil(h, o, ok) ==
  /\ inflight[h].reg.kind = "relay"
  /\ o \in {"nil", "changed"}
  /\ HandleFinish(h, o, ok)

\* the Publish calls the step made that the transport accepted
NewlyPublished == {r \in published' \ published : r.ok}

\* exactly one envelope goes out on h's publish topic, as the handler left it
OneRepublished(h, o) ==
  /\ Cardinality(NewlyPublished) = 1
  /\ \A r \in NewlyPublished :
       /\ r.topic = inflight[h].reg.pub /\ r.by = h
       /\ r.id = inflight[h].id
       /\ r.name = inflight[h].name
       /\ r.payload = (IF o = "changed" THEN "p1" ELSE inflight[h].payload)

Acked(h) ==
  /\ dlv'[h][inflight[h].id].ack = dlv[h][inflight[h].id].ack + 1
  /\ dlv'[h][inflight[h].id].nack = dlv[h][inflight[h].id].nack

Nacked(h) ==
  /\ dlv'[h][inflight[h].id].nack = dlv[h][inflight[h].id].nack + 1
  /\ dlv'[h][inflight[h].id].ack = dlv[h][inflight[h].id].ack

\* C12 (as claimed): whenever a relay handler returns nil, exactly one
\* envelope is published to publishTopic as the handler left it and the
\* inbound envelope is acked, never nacked.
C12_NilAlwaysRepublishesAndAcks ==
  [][\A h \in AllNames, o \in Outcomes, ok \in BOOLEAN :
        RelayReturnsNil(h, o, ok) => (OneRepublished(h, o) /\ Acked(h))]_vars

\* C12 (amended): when a relay handler returns nil and the publish to
\* publishTopic succeeds, exactly one envelope is published there as the
\* handler left it and the inbound envelope is acked; when that publish fails,
\* no envelope reaches publishTopic and the inbound envelope is nacked.
C12_NilRepublishesAndAcks ==
  [][\A h \in AllNames, o \in Outcomes, ok \in BOOLEAN :
        RelayReturnsNil(h, o, ok) =>
          IF ok THEN OneRepublished(h, o) /\ Acked(h)
          ELSE NewlyPublished = {} /\ queue' = queue /\ Nacked(h)]_vars

\* order_processor rewrote an envelope, it went out on orders.processed and
\* the inbound envelope was acked
C12_Witness ==
  \E r \in published :
    /\ r.by = "order_processor" /\ r.ok
    /\ r.topic = "orders.processed" /\ r.payload = "p1"
    /\ dlv["order_processor"][r.id].ack = 1
    /\ dlv["order_processor"][r.id].nack = 0
    /\ dlv["order_processor"][r.id].sent = 1

\* C13: when a relay handler returns an error, the delivery makes no Publish
\* call, no subscription receives anything, and the inbound envelope is
\* nacked and not acked.
C13_RelayErrorPublishesNothing ==
  [][\A h \in AllNames, ok \in BOOLEAN :
        (inflight[h].reg.kind = "relay" /\ HandleFinish(h, "err", ok)) =>
          /\ published' = published
          /\ queue' = queue
          /\ Nacked(h)]_vars

\* order_processor failed on an envelope: nacked, nothing sent on
C13_Witness ==
  \E i \in MsgIds :
    /\ handlers["order_processor"].kind = "relay"
    /\ dlv["order_processor"][i].err = 1
    /\ dlv["order_processor"][i].nack = 1
    /\ dlv["order_processor"][i].ack = 0
    /\ dlv["order_processor"][i].sent = 0
    /\ \A r \in published : r.by # "order_processor"

\* C14: a relay handler that returns nil without touching the envelope has the
\* inbound envelope republished verbatim: the envelope published on
\* publishTopic, and handed to each of its subscriptions, has the id, the
\* metadata and the payload of the inbound one.
C14_UntouchedIsRepublishedVerbatim ==
  [][\A h \in AllNames :
        (inflight[h].reg.kind = "relay" /\ HandleFinish(h, "nil", TRUE)) =>
          LET in == [id |-> inflight[h].id, name |-> inflight[h].name,
                     payload |-> inflight[h].payload]
          IN /\ \A r \in published' \ published :
                  /\ r.topic = inflight[h].reg.pub
                  /\ r.id = in.id /\ r.name = in.name /\ r.payload = in.payload
             /\ published' # published
             /\ \A g \in Subscribers(handlers, inflight[h].reg.pub) :
                  queue'[g] = Append(queue[g], in)]_vars

\* the envelope order_processor passed through untouched was handed to the
\* consumer of orders.processed under the same id
C14_Witness ==
  \E r \in published :
    /\ r.by = "order_processor" /\ r.ok /\ r.payload = "p0"
    /\ "payment_executor" \in r.to
    /\ \E c \in published : c.by = "client" /\ c.id = r.id /\ c.payload = r.payload
    /\ dlv["payment_executor"][r.id].inv = 1

\* C15: a consumer-only handler never makes the router publish anything, and
\* its envelope is acked exactly when the handler returned nil and nacked
\* exactly when it returned an error.
C15_ConsumerOnlySettlesByResult ==
  /\ [](\A r \in published, n \in AllNames :
          handlers[n].kind = "consumer" => r.by # n)
  /\ [][\A h \in AllNames, o \in {"nil", "err"}, ok \in BOOLEAN :
          (inflight[h].reg.kind = "consumer" /\ HandleFinish(h, o, ok)) =>
            /\ published' = published
            /\ queue' = queue
            /\ (Acked(h) <=> o = "nil")
            /\ (Nacked(h) <=> o = "err")]_vars

\* payment_executor acked one envelope and nacked another it failed on
C15_Witness ==
  /\ handlers["payment_executor"].kind = "consumer"
  /\ \E i \in MsgIds, j \in MsgIds :
       /\ dlv["payment_executor"][i].ack = 1 /\ dlv["payment_executor"][i].nack = 0
       /\ dlv["payment_executor"][j].err = 1 /\ dlv["payment_executor"][j].nack = 1
       /\ dlv["payment_executor"][j].ack = 0
  /\ \A r \in published : r.by # "payment_executor"

\* C16 (as claimed): before Run, RegisterEventHandler under an event name that
\* already has an event handler succeeds, without error or panic, and adds a
\* further registration.
C16_EventHandlersAccumulate ==
  [][\A n \in BusNames, f \in HandlerFns :
        (/\ ~isRunning
         /\ handlers[n].kind = "event"
         /\ RegisterEventHandler(n, f)) =>
           /\ last'.err = "nil"
           /\ handlers' # handlers]_vars

\* C17 (as claimed): RegisterCommandHandler and RegisterEventHandler called
\* while the router is running return an error, neither nil nor a panic, and
\* leave the registry as it was.
C17_BusRegistrationRejectedWhenRunning ==
  [][\A n \in BusNames, f \in HandlerFns :
        (Running /\ (RegisterCommandHandler(n, f) \/ RegisterEventHandler(n, f))) =>
           /\ last'.err \notin {"nil", "panic: duplicate handler name"}
           /\ handlers' = handlers]_vars

\* C18 (as claimed): before the router runs AddMiddleware appends the
\* interceptor to the end of the chain; while it runs the call fails and the
\* chain stays as it was.
C18_MiddlewareFrozenWhenRunning ==
  [][\A m \in MiddlewareNames :
        AddMiddleware(m) =>
          IF Running
          THEN middlewares' = middlewares /\ last'.err \notin {None, "nil"}
          ELSE middlewares' = Append(middlewares, m)]_vars

\* C19 (as claimed): AddPlugin called while Running() is true fails and leaves
\* the plugin list as it was.
C19_PluginRejectedWhenRunning ==
  [][\A p \in PluginNames :
        (Running /\ AddPlugin(p)) =>
          /\ plugins' = plugins
          /\ last'.err \notin {None, "nil"}]_vars

\* C20 (as claimed): a second event handler can be registered for an event
\* that already has one; an event published under that name is handed, with
\* the payload as published, to every running handler registered for it; and
\* when one event handler returns an error its own delivery is nacked while
\* the deliveries of the other handlers are left as they are.
C20_EventHandlersIndependent ==
  /\ [][\A n \in BusNames, f \in HandlerFns :
          (handlers[n].kind = "event" /\ RegisterEventHandler(n, f)) =>
             last'.err # "panic: duplicate handler name"]_vars
  /\ [][\A t \in EventTypes, n \in BusNames :
          (/\ Running
           /\ PublishEvent(t, TRUE)
           /\ handlers[n].kind = "event" /\ LoopOpen(n)
           /\ StructName(t) = n) =>
             /\ Len(queue'[n]) = Len(queue[n]) + 1
             /\ queue'[n][Len(queue'[n])].payload = "p0"]_vars
  /\ [][\A h \in AllNames, ok \in BOOLEAN :
          (inflight[h].reg.kind = "event" /\ HandleFinish(h, "err", ok)) =>
             /\ Nacked(h)
             /\ \A g \in AllNames \ {h} :
                  /\ dlv'[g] = dlv[g]
                  /\ queue'[g] = queue[g]
                  /\ inflight'[g] = inflight[g]]_vars

\* C21 (as claimed): once the context of a Run that is blocked in the running
\* state is cancelled, that Run returns.
C21_CancelEndsRun ==
  \A c \in RunCalls : (runPc[c] = "waitClosing" /\ ctxDone) ~> (runPc[c] = "done")

\* C22 (as claimed): Running() is false before any Run has opened the loops,
\* true while a Run is blocked in the running state of a router not being
\* closed, and false once Close has completed.
C22_RunningReflectsState ==
  /\ NoRunYet => ~Running
  /\ (~closed /\ \E c \in RunCalls : runPc[c] = "waitClosing") => Running
  /\ closedCh => ~Running

\* envelopes of loop h whose handler has been invoked and which are settled
\* neither way yet
Unsettled(h) ==
  {i \in MsgIds : dlv[h][i].inv > 0 /\ dlv[h][i].ack + dlv[h][i].nack = 0}

Handed(h) == {r.id : r \in {x \in published : x.ok /\ h \in x.to}}

\* envelopes still waiting in the subscription of loop h
Waiting(h) == {queue[h][k].id : k \in 1..Len(queue[h])}

\* C24: every envelope a loop took from its subscription is settled exactly
\* once: never acked and nacked, never settled twice, and settled as soon as
\* its handling is over, whether the handler returned nil, failed, panicked
\* or the republish failed.
C24_SettledExactlyOnce ==
  /\ [](\A h \in AllNames, i \in MsgIds : dlv[h][i].ack + dlv[h][i].nack <= 1)
  /\ [](\A h \in AllNames : \A i \in Handed(h) \ Waiting(h) :
          inflight[h].id # i => dlv[h][i].ack + dlv[h][i].nack = 1)
  /\ [][\A h \in AllNames, o \in Outcomes, ok \in BOOLEAN :
          HandleFinish(h, o, ok) => (Acked(h) \/ Nacked(h))]_vars

\* the republish of order_processor failed after its handler returned nil:
\* the inbound envelope was nacked, once, and not acked
C24_Witness ==
  \E r \in published :
    /\ r.by = "order_processor" /\ ~r.ok
    /\ dlv["order_processor"][r.id].inv = 1
    /\ dlv["order_processor"][r.id].err + dlv["order_processor"][r.id].panic = 0
    /\ dlv["order_processor"][r.id].nack = 1
    /\ dlv["order_processor"][r.id].ack = 0

\* C25: when the Subscribe of a registered handler fails while Run starts,
\* that Run returns a non-nil error without the router ever running, the
\* handler has no loop, and after such a failure no loop is opened any more,
\* so the handler is never invoked.
C25_SubscribeFailureIsFatal ==
  /\ [][\A c \in RunCalls, f \in AllNames, S \in SUBSET AllNames :
          RunHandlers(c, f, S) =>
            /\ runPc'[c] = "done"
            /\ runErr'[c] \notin {None, "nil"}
            /\ handlers'[f].state = "added" /\ handlers'[f].subs = 0
            /\ queue'[f] = << >> /\ inflight'[f].id = 0
            /\ ~running']_vars
  /\ [][(\E c \in RunCalls : runErr[c] = "cannot subscribe topic") =>
          \A h \in AllNames : LoopOpen(h)' => LoopOpen(h)]_vars
  /\ [][\A h \in AllNames : HandleStart(h) => handlers[h].subs >= 1]_vars

\* Run failed on the subscription of payment_executor after order_processor
\* had been started; an envelope was published since, and payment_executor was
\* not invoked
C25_Witness ==
  /\ \E c \in RunCalls : runPc[c] = "done" /\ runErr[c] = "cannot subscribe topic"
  /\ handlers["payment_executor"].state = "added"
  /\ handlers["payment_executor"].subs = 0
  /\ handlers["order_processor"].subs = 1
  /\ published # {}
  /\ \A i \in MsgIds : dlv["payment_executor"][i].inv = 0

\* C26: a Close whose wait for the handlers is cut short by the close timeout
\* returns the timeout error and completes all the same: a Close that has
\* begun ends with the router closed, the loops stop, and a Run blocked in the
\* running state returns.
C26_CloseTimeoutStillCloses ==
  /\ [][(closer = "user" /\ ~Drained /\ CloseFinish) =>
          /\ last'.op = "Close" /\ last'.err = "router close timeout"
          /\ closed' /\ closedCh']_vars
  /\ (closer = "user") ~> (closedCh /\ closer = None)
  /\ closedCh ~> (\A h \in AllNames : ~LoopOpen(h))
  /\ \A c \in RunCalls :
       (closedCh /\ last.err = "router close timeout" /\ runPc[c] = "waitClosing")
          ~> (runPc[c] = "done" /\ runErr[c] = "nil")

\* Close gave up on a handler still at work: it returned the timeout error,
\* the router is closed, every loop has stopped and Run has returned
C26_Witness ==
  /\ last.op = "Close" /\ last.err = "router close timeout"
  /\ closed /\ closedCh /\ closer = None
  /\ \E h \in AllNames : inflight[h].id # 0 /\ handlers[h].state # "started"
  /\ \A h \in AllNames : ~LoopOpen(h)
  /\ \E c \in RunCalls : runPc[c] = "done" /\ runErr[c] = "nil"

\* C27: a panic inside a handler invocation is turned into a nack of that
\* envelope, which is not acked and not sent on; the registrations and their
\* loops, the other loops' envelopes and every Run call are left as they were.
C27_PanicIsContained ==
  /\ [](\A h \in AllNames, i \in MsgIds :
          dlv[h][i].panic = 1 => (dlv[h][i].nack = 1 /\ dlv[h][i].ack = 0))
  /\ [][\A h \in AllNames, ok \in BOOLEAN :
          HandleFinish(h, "panic", ok) =>
            /\ Nacked(h)
            /\ published' = published
            /\ handlers' = handlers
            /\ runPc' = runPc /\ runErr' = runErr
            /\ closed' = closed /\ ctxDone' = ctxDone
            /\ \A g \in AllNames \ {h} :
                 /\ queue'[g] = queue[g]
                 /\ inflight'[g] = inflight[g]
                 /\ dlv'[g] = dlv[g]]_vars

\* a handler panicked on one envelope, which was nacked, and then handled the
\* next one; Run is still blocked in the running state
C27_Witness ==
  \E h \in AllNames, i \in MsgIds, j \in MsgIds :
    /\ i # j
    /\ dlv[h][i].panic = 1 /\ dlv[h][i].nack = 1 /\ dlv[h][i].ack = 0
    /\ dlv[h][j].inv = 1 /\ dlv[h][j].ack = 1
    /\ LoopOpen(h)
    /\ runPc[1] = "waitClosing"

\* C28 (as claimed): before Run, AddHandler and AddNoPublisherHandler succeed
\* also for a handlerName or a subscribeTopic that an existing registration
\* already uses.
C28_RelayRegistrationsCoexist ==
  [][(~isRunning /\ AddCall) => last'.err = "nil"]_vars

\* an order published while the three loops of the pipeline are open
InPipeline(i) ==
  /\ \A h \in RelayNames : LoopOpen(h)
  /\ \E r \in published :
       /\ r.by = "client" /\ r.id = i /\ r.topic = "orders.created"
       /\ "order_processor" \in r.to

\* some stage of the pipeline failed on the order
StageFailed(i) == \E h \in RelayNames : dlv[h][i].nack >= 1

LoopsOpened == \E c \in RunCalls : runPc[c] \in {"subscribed", "waitClosing"}

\* C30 (as claimed): a registration that comes once a Run has opened the
\* loops is rejected with an error and leaves the registry as it was.
C30_RegistrationBeforeLoopsOrRejected ==
  [][(AddCall /\ LoopsOpened) =>
       (last'.err = "cannot add handler to running router"
          /\ handlers' = handlers)]_vars

\* the loop of bus handler h finishes an envelope that reached the OnHandle
\* hook
HookFinishes(h, o, ok) ==
  /\ inflight[h].reg.kind \in {"command", "event"}
  /\ Invokes(inflight[h].reg, inflight[h])
  /\ HandleFinish(h, o, ok)

\* C31: for an envelope that reaches the OnHandle hook of the command or the
\* event processor, the registered handler is invoked exactly once and the
\* envelope is acked exactly when the handler returned nil and nacked
\* otherwise; nothing is published on the way.
C31_HookKeepsOutcome ==
  /\ [](\A h \in BusNames, i \in MsgIds : dlv[h][i].inv <= 1)
  /\ [][\A h \in BusNames, o \in Outcomes, ok \in BOOLEAN :
          HookFinishes(h, o, ok) =>
            /\ dlv'[h][inflight[h].id].inv = 1
            /\ (Acked(h) <=> o = "nil")
            /\ (Nacked(h) <=> o # "nil")
            /\ published' = published]_vars

\* a command handler and an event handler each went through the hook: one
\* failed and was nacked, one returned nil and was acked
C31_Witness ==
  \E h \in BusNames, g \in BusNames, i \in MsgIds, j \in MsgIds :
    /\ handlers[h].kind = "command" /\ handlers[g].kind = "event"
    /\ dlv[h][i].inv = 1 /\ dlv[h][i].err = 1
    /\ dlv[h][i].nack = 1 /\ dlv[h][i].ack = 0
    /\ dlv[g][j].inv = 1 /\ dlv[g][j].err = 0
    /\ dlv[g][j].ack = 1 /\ dlv[g][j].nack = 0

\* the record of the Publish call the step made on the transport
PublishedNow(ok) ==
  \E r \in published' \ published : r.id = nextId /\ r.by = "bus" /\ r.ok = ok

\* C32: every command envelope PublishCommand hands to the transport carries
\* "sent_at" and every event envelope PublishEvent hands to it carries
\* "published_at"; the pre-send hooks return nil, so every call reaches the
\* transport and fails only when the transport does.
C32_StampedBeforeTransport ==
  /\ [](\A r \in published :
          /\ (r.by = "bus" /\ r.kind = "command") => "sent_at" \in r.meta
          /\ (r.by = "bus" /\ r.kind = "event") => "published_at" \in r.meta)
  /\ [](OnSendError = "nil" /\ OnPublishError = "nil")
  /\ [][\A t \in CommandTypes, ok \in BOOLEAN :
          PublishCommand(t, ok) =>
            (PublishedNow(ok) /\ (last'.err = "nil" <=> ok))]_vars
  /\ [][\A t \in EventTypes, ok \in BOOLEAN :
          PublishEvent(t, ok) =>
            (PublishedNow(ok) /\ (last'.err = "nil" <=> ok))]_vars

\* a command and an event went out stamped, and a publish the transport
\* refused was stamped all the same
C32_Witness ==
  \E c \in published, e \in published :
    /\ c.by = "bus" /\ c.kind = "command" /\ "sent_at" \in c.meta
    /\ e.by = "bus" /\ e.kind = "event" /\ "published_at" \in e.meta
    /\ c.ok /\ ~e.ok

\* the calls that register a handler, an interceptor or a plugin
RegistrationCall ==
  \/ Registration
  \/ \E m \in MiddlewareNames : AddMiddleware(m)
  \/ \E p \in PluginNames : AddPlugin(p)

\* C33: registration does no I/O. While no Run has been called no
\* subscription is open, no envelope has reached a loop, no handler has been
\* invoked and the router has published nothing; and a registration call
\* leaves subscriptions, envelopes, deliveries and publications as they were.
C33_RegistrationDoesNoIO ==
  /\ [](NoRunYet =>
          /\ \A n \in AllNames :
               /\ handlers[n].subs = 0 /\ ~LoopOpen(n)
               /\ queue[n] = << >> /\ inflight[n].id = 0
               /\ \A i \in MsgIds : dlv[n][i] = NoDelivery
          /\ \A r \in published : r.by \in {"client", "bus"} /\ r.to = {})
  /\ [][(NoRunYet /\ RegistrationCall) =>
          /\ \A n \in AllNames : handlers'[n].subs = handlers[n].subs
          /\ \A n \in AllNames : LoopOpen(n)' = LoopOpen(n)
          /\ queue' = queue /\ inflight' = inflight /\ dlv' = dlv
          /\ published' = published
          /\ isRunning' = isRunning /\ running' = running /\ closed' = closed]_vars

\* before any Run: handlers, an interceptor and a plugin are registered, an
\* envelope was published on a topic one of the handlers is registered for,
\* and it reached no loop
C33_Witness ==
  /\ NoRunYet
  /\ Registered(handlers, "order_processor") /\ Registered(handlers, "payment_executor")
  /\ middlewares # << >> /\ plugins # << >>
  /\ last.op \in {"AddHandler", "AddNoPublisherHandler"} /\ last.err = "nil"
  /\ \E r \in published : r.topic = handlers["order_processor"].sub /\ r.to = {}
  /\ \A n \in AllNames : queue[n] = << >>

\* logical names the naming is tried on: the names in use and names that look
\* like topics or differ in little
LogicalNames ==
  BusNames \cup {StructName(t) : t \in CommandTypes \cup EventTypes}
           \cup {"", "x", "events.x", "commands.x", "createorder", "CreateOrder.",
                 ".CreateOrder", "commands.CreateOrder", "events."}

\* C34: the default naming is injective within a kind and never gives a
\* command and an event the same topic, so no published command is handed to
\* the loop of an event handler and no published event to the loop of a
\* command handler.
C34_NamingInjectiveAndKindSeparated ==
  /\ \A a \in LogicalNames, b \in LogicalNames :
       /\ a # b => generateCommandTopic(a) # generateCommandTopic(b)
       /\ a # b => generateEventTopic(a) # generateEventTopic(b)
       /\ generateCommandTopic(a) # generateEventTopic(b)
  /\ \A r \in published : \A n \in r.to :
       r.by = "bus" => handlers[n].kind = r.kind
  /\ \A n \in AllNames, m \in AllNames :
       (handlers[n].kind = "command" /\ handlers[m].kind = "event") =>
         handlers[n].sub # handlers[m].sub

\* a command reached the loop of a command handler and an event the loop of
\* an event handler, both handlers being registered under the same argument
\* type
C34_Witness ==
  \E c \in published, e \in published, n \in AllNames, m \in AllNames :
    /\ c.by = "bus" /\ c.kind = "command" /\ n \in c.to
    /\ e.by = "bus" /\ e.kind = "event" /\ m \in e.to
    /\ handlers[n].kind = "command" /\ handlers[m].kind = "event"
    /\ handlers[n].expect = handlers[m].expect

\* C35 (as claimed): a command or an event is published on the topic that the
\* handlers registered under its logical name have subscribed.
C35_PublishAndSubscribeTopicsAgree ==
  \A r \in published, n \in BusNames :
    (r.by = "bus" /\ handlers[n].kind = r.kind /\ r.name = n) =>
      handlers[n].sub = r.topic

\* envelopes published with a payload that cannot be decoded
Garbled == {r.id : r \in {x \in published : x.payload = "garbled"}}

\* the envelope bus handler h is at work on cannot be decoded
UndecodableInFlight(h) ==
  /\ inflight[h].reg.kind \in {"command", "event"}
  /\ inflight[h].id # 0
  /\ inflight[h].name = inflight[h].reg.expect
  /\ Unmarshal(inflight[h]) # "nil"

\* C36: an envelope whose payload cannot be decoded never reaches the
\* registered handler; it is nacked, once, and not acked; the engine does not
\* hand it to the loop again; the registration and its loop stay as they are.
C36_DecodeFailureIsNacked ==
  /\ [](\A h \in BusNames, i \in Garbled :
          /\ dlv[h][i].inv = 0 /\ dlv[h][i].ack = 0 /\ dlv[h][i].nack <= 1)
  /\ [][\A h \in BusNames, o \in Outcomes, ok \in BOOLEAN :
          (UndecodableInFlight(h) /\ HandleFinish(h, o, ok)) =>
            /\ Nacked(h)
            /\ dlv'[h][inflight[h].id].inv = 0
            /\ queue' = queue
            /\ published' = published
            /\ handlers' = handlers /\ LoopOpen(h)']_vars

\* a loop nacked an envelope it could not decode without invoking its handler
\* and then handled the next envelope
C36_Witness ==
  \E h \in BusNames, i \in Garbled, j \in MsgIds :
    /\ i < j
    /\ dlv[h][i].inv = 0 /\ dlv[h][i].nack = 1 /\ dlv[h][i].ack = 0
    /\ dlv[h][j].inv = 1 /\ dlv[h][j].ack = 1
    /\ LoopOpen(h)

\* a Close call returns nil on a router whose loops a Run has opened
CloseReturnsNil ==
  /\ running
  /\ (closer = "user" /\ CloseFinish) \/ CloseAgain
  /\ last'.op = "Close" /\ last'.err = "nil"

\* a Close call has returned nil on a router whose loops a Run has opened
ClosedWithoutError ==
  running /\ closed /\ closer = None /\ last.op = "Close" /\ last.err = "nil"

\* C37 (as claimed): when Close returns nil on a running router no handler
\* invocation is in progress and every invocation that had started is
\* settled, and no invocation starts afterwards.
C37_NilCloseIsClean ==
  /\ [][CloseReturnsNil =>
          \A h \in AllNames : inflight'[h].id = 0 /\ Unsettled(h)' = {}]_vars
  /\ [][ClosedWithoutError => \A h \in AllNames : ~HandleStart(h)]_vars

\* C38 (as claimed): every handler invocation passes through the whole chain
\* of interceptors added by AddMiddleware, the first added outermost, and
\* reaches the handler function last.
C38_WholeChainInOrder ==
  [][\A h \in AllNames :
        HandleStart(h) =>
          inflight'[h].reg.chain = middlewares \o << "handler" >>]_vars

\* whether the provider can send the message
Sendable(message) == message = "ok"

\* C39 (as claimed): SendBulkEmails always returns, with a nil error and a
\* response in which SuccessCount + FailureCount and the number of results
\* equal the number of messages, result i tells how message i fared, the
\* number of errors equals FailureCount, and SuccessCount is the number of
\* messages when every send succeeded.
C39_BulkResponseIsComplete ==
  /\ bulk.pc # "panicked"
  /\ bulk.pc = "returned" =>
       /\ bulk.err = "nil"
       /\ bulk.successCount + bulk.failureCount = Len(bulk.messages)
       /\ Len(bulk.results) = Len(bulk.messages)
       /\ Len(bulk.errors) = bulk.failureCount
       /\ \A k \in 1..Len(bulk.messages) :
            bulk.results[k] = "sent" => Sendable(bulk.messages[k])
       /\ (bulk.dialOk /\ \A k \in 1..Len(bulk.messages) : Sendable(bulk.messages[k])) =>
            (bulk.successCount = Len(bulk.messages) /\ bulk.failureCount = 0)
  /\ Len(bulk.results) = bulk.successCount + bulk.failureCount

====
